---- MODULE Spec2Model ----
(***************************************************************************)
(* Trip planner: the place scorer (OSMRecommender._rank_places), the       *)
(* trainable models (MLBudgetModel, MLRankingModel: train / predict /      *)
(* save / load), the ranking model's rank_places with its fallback scorer, *)
(* and the budget routes that validate a request before calling the model. *)
(*                                                                         *)
(* Numbers are exact: a score is an integer count of a fixed unit          *)
(* (hundredths, tenths, ten-thousandths), a quotient is rounded the way    *)
(* round() rounds it.  Text is a tuple of one-letter strings so that       *)
(* Python's "a in b" on strings is a real substring test.                  *)
(***************************************************************************)
EXTENDS Integers, Sequences, FiniteSets, TLC

VARIABLES
    places,       \* _rank_places: the caller's list of place dicts (mutated in place)
    interests,    \* _rank_places: the interests argument, None or a list
    month,        \* datetime.now().month during the call
    ranked,       \* _rank_places: the returned list
    rpc,          \* "call" before _rank_places ran, "done" after
    cls,          \* the model class of the run: "MLBudgetModel" or "MLRankingModel"
    inst,         \* model instance -> its model, scaler, feature_names, is_trained
    disk,         \* file path under trained_models/ -> the file
    completed,    \* model instance -> a train or load call has completed on it
    train_done,   \* model instance -> a train call has completed on it
    ntrain,       \* train calls so far
    nsave,        \* save calls that reached the dumps so far
    last,         \* the last call on a model instance and how it ended
    ranker,       \* rank_places: the MLRankingModel instance it is called on
    places_df,    \* rank_places: the caller's frame of places
    user_features, \* rank_places: the caller's dict of user features
    top_k,        \* rank_places: how many places to return
    ml_scores,    \* rank_places: what the regressor predicted, row by row
    results,      \* rank_places: how it ended and the list it returned
    request,      \* a budget route: the route and the request's fields
    artifacts_ok, \* a budget route: the budget model's artifacts can be loaded
    response,     \* a budget route: the response, and whether it used the model
    raw_df,       \* create_place_features: the caller's frame of raw places
    features,     \* create_place_features: how it ended and the frame it returned
    ensemble,     \* the EnsembleRankingModel: its models and their weights
    ens_df,       \* ensemble rank_places: the caller's frame of places
    ens_top_k,    \* ensemble rank_places: how many places to return
    ens_results,  \* ensemble rank_places: how it ended and the list it returned
    interaction,  \* create_interaction_features: the user features and the frame returned
    interactions_df, \* create_training_dataset: the caller's frame of interactions
    dataset       \* create_training_dataset: how it ended, its rows and feature columns

rankVars == <<places, interests, month, ranked, rpc>>

modelVars == <<cls, inst, disk, completed, train_done, ntrain, nsave, last>>

mlVars == <<ranker, places_df, user_features, top_k, ml_scores, results>>

routeVars == <<request, artifacts_ok, response>>

featVars == <<raw_df, features, interaction>>

ensVars == <<ensemble, ens_df, ens_top_k, ens_results>>

vars == <<places, interests, month, ranked, rpc,
          cls, inst, disk, completed, train_done, ntrain, nsave, last,
          ranker, places_df, user_features, top_k, ml_scores, results,
          request, artifacts_ok, response,
          raw_df, features,
          ensemble, ens_df, ens_top_k, ens_results,
          interaction, interactions_df, dataset>>

\* what a call on one component leaves alone: the other components
----------------------------------------------------------------------------
(* Bounds of the model *)

MaxPlaces == 3

MaxTrains == 2

MaxSaves == 2

----------------------------------------------------------------------------
(* Text *)

\* the characters of the category, keyword, interest and tag strings of the scorer
KeywordChars ==
    "beach" :> <<"b","e","a","c","h">>
    @@
    "mountain" :> <<"m","o","u","n","t","a","i","n">>
    @@
    "park" :> <<"p","a","r","k">>
    @@
    "waterfall" :> <<"w","a","t","e","r","f","a","l","l">>
    @@
    "viewpoint" :> <<"v","i","e","w","p","o","i","n","t">>
    @@
    "temple" :> <<"t","e","m","p","l","e">>
    @@
    "monument" :> <<"m","o","n","u","m","e","n","t">>
    @@
    "museum" :> <<"m","u","s","e","u","m">>
    @@
    "tourist_attraction" :> <<"t","o","u","r","i","s","t","_","a","t","t","r","a","c","t","i","o","n">>
    @@
    "attraction" :> <<"a","t","t","r","a","c","t","i","o","n">>
    @@
    "hill" :> <<"h","i","l","l">>
    @@
    "nature" :> <<"n","a","t","u","r","e">>
    @@
    "religious" :> <<"r","e","l","i","g","i","o","u","s">>
    @@
    "culture" :> <<"c","u","l","t","u","r","e">>
    @@
    "adventure" :> <<"a","d","v","e","n","t","u","r","e">>
    @@
    "history" :> <<"h","i","s","t","o","r","y">>
    @@
    "relaxation" :> <<"r","e","l","a","x","a","t","i","o","n">>
    @@
    "heritage" :> <<"h","e","r","i","t","a","g","e">>
    @@
    "food" :> <<"f","o","o","d">>

\* the characters of the categories the map-data service gives its places
CategoryChars ==
    "Beach" :> <<"B","e","a","c","h">>
    @@
    "Mountain" :> <<"M","o","u","n","t","a","i","n">>
    @@
    "Museum" :> <<"M","u","s","e","u","m">>
    @@
    "Park" :> <<"P","a","r","k">>
    @@
    "Tourist Attraction" :> <<"T","o","u","r","i","s","t"," ","A","t","t","r","a","c","t","i","o","n">>
    @@
    "Waterfall" :> <<"W","a","t","e","r","f","a","l","l">>
    @@
    "Viewpoint" :> <<"V","i","e","w","p","o","i","n","t">>
    @@
    "Monument" :> <<"M","o","n","u","m","e","n","t">>
    @@
    "Castle" :> <<"C","a","s","t","l","e">>
    @@
    "Archaeological Site" :> <<"A","r","c","h","a","e","o","l","o","g","i","c","a","l"," ","S","i","t","e">>
    @@
    "Hindu Temple" :> <<"H","i","n","d","u"," ","T","e","m","p","l","e">>
    @@
    "Religious Site Temple" :> <<"R","e","l","i","g","i","o","u","s"," ","S","i","t","e"," ","T","e","m","p","l","e">>
    @@
    "Temple" :> <<"T","e","m","p","l","e">>
    @@
    "Point of Interest" :> <<"P","o","i","n","t"," ","o","f"," ","I","n","t","e","r","e","s","t">>

\* str.lower() on one letter
ToLower ==
    LET UpperCase ==
            <<"A","B","C","D","E","F","G","H","I","J","K","L","M",
              "N","O","P","Q","R","S","T","U","V","W","X","Y","Z">>
        LowerCase ==
            <<"a","b","c","d","e","f","g","h","i","j","k","l","m",
              "n","o","p","q","r","s","t","u","v","w","x","y","z">>
    IN  [c \in {UpperCase[i] : i \in 1..Len(UpperCase)} |->
            LowerCase[CHOOSE i \in 1..Len(UpperCase) : UpperCase[i] = c]]

LowerChar(c) == IF c \in DOMAIN ToLower THEN ToLower[c] ELSE c

Lower(s) == [i \in 1..Len(s) |-> LowerChar(s[i])]

\* Python's  sub in s  on strings
Contains(sub, s) ==
    \E i \in 1..(Len(s) - Len(sub) + 1) : SubSeq(s, i, i + Len(sub) - 1) = sub

----------------------------------------------------------------------------
(* Arithmetic *)

Min(a, b) == IF a <= b THEN a ELSE b

\* round(num/den) to the nearest integer, an exact half to the even one
RoundDiv(num, den) ==
    LET q == num \div den
        r == num % den
    IN  IF 2 * r > den THEN q + 1
        ELSE IF 2 * r < den THEN q
        ELSE IF q % 2 = 0 THEN q ELSE q + 1

----------------------------------------------------------------------------
(* OSMRecommender: the place scorer *)

\* CATEGORY_KEYWORDS: interest -> the categories it is about
CATEGORY_KEYWORDS(interest) ==
    IF interest = KeywordChars["nature"]
        THEN <<KeywordChars["beach"], KeywordChars["mountain"], KeywordChars["park"], KeywordChars["waterfall"], KeywordChars["viewpoint"]>>
    ELSE IF interest = KeywordChars["religious"] THEN <<KeywordChars["temple"], KeywordChars["monument"]>>
    ELSE IF interest = KeywordChars["culture"]
        THEN <<KeywordChars["museum"], KeywordChars["monument"], KeywordChars["tourist_attraction"]>>
    ELSE IF interest = KeywordChars["adventure"] THEN <<KeywordChars["mountain"], KeywordChars["viewpoint"], KeywordChars["beach"]>>
    ELSE IF interest = KeywordChars["history"]
        THEN <<KeywordChars["monument"], KeywordChars["museum"], KeywordChars["tourist_attraction"]>>
    ELSE IF interest = KeywordChars["relaxation"] THEN <<KeywordChars["beach"], KeywordChars["park"]>>
    ELSE IF interest = KeywordChars["heritage"] THEN <<KeywordChars["monument"], KeywordChars["tourist_attraction"]>>
    ELSE <<>>

\* _calculate_popularity with the wikipedia boost of 0.1 the other tags get
CalculatePopularity_WikipediaTenth(place) ==
    Min(50 + (IF place.wikipedia THEN 10 ELSE 0)
           + (IF place.website THEN 10 ELSE 0)
           + (IF place.description THEN 10 ELSE 0)
           + (IF place.tourism = KeywordChars["attraction"] THEN 10 ELSE 0),
        100)

\* _calculate_popularity, in hundredths
CalculatePopularity(place) ==
    Min(50 + (IF place.wikipedia THEN 20 ELSE 0)
           + (IF place.website THEN 10 ELSE 0)
           + (IF place.description THEN 10 ELSE 0)
           + (IF place.tourism = KeywordChars["attraction"] THEN 10 ELSE 0),
        100)

\* what one interest adds to the score, in halves of 1/len(interests)
InterestUnits(place_category, raw) ==
    LET interest == Lower(raw)
        kws == CATEGORY_KEYWORDS(interest)
    IN  (IF \E k \in 1..Len(kws) : Contains(kws[k], place_category)
            THEN 2 ELSE 0)
      + (IF Contains(interest, place_category) \/ Contains(place_category, interest)
            THEN 1 ELSE 0)

RECURSIVE SumInterestUnits(_, _, _)
SumInterestUnits(place_category, items, i) ==
    IF i > Len(items) THEN 0
    ELSE InterestUnits(place_category, items[i])
         + SumInterestUnits(place_category, items, i + 1)

\* _calculate_interest_match scoring 0 when interests is None
CalculateInterestMatch_ZeroWhenNone(place, ints) ==
    IF ints.isNone THEN <<0, 2>>
    ELSE IF Len(ints.items) = 0 THEN <<1, 2>>
    ELSE LET L == Len(ints.items)
         IN  <<Min(SumInterestUnits(Lower(place.category), ints.items, 1), 2 * L),
               2 * L>>

\* _calculate_interest_match testing  interests is None  instead of
\* not interests : an empty list runs the loop no times and scores 0
CalculateInterestMatch_EmptyScored(place, ints) ==
    IF ints.isNone THEN <<1, 2>>
    ELSE IF Len(ints.items) = 0 THEN <<0, 2>>
    ELSE LET L == Len(ints.items)
         IN  <<Min(SumInterestUnits(Lower(place.category), ints.items, 1), 2 * L),
               2 * L>>

\* _calculate_interest_match returning score without min(score, 1.0)
CalculateInterestMatch_Unclamped(place, ints) ==
    IF ints.isNone \/ Len(ints.items) = 0 THEN <<1, 2>>
    ELSE LET L == Len(ints.items)
         IN  <<SumInterestUnits(Lower(place.category), ints.items, 1), 2 * L>>

\* _calculate_interest_match: the score as the fraction <<numerator, denominator>>
CalculateInterestMatch(place, ints) ==
    IF ints.isNone \/ Len(ints.items) = 0 THEN <<1, 2>>
    ELSE LET L == Len(ints.items)
         IN  <<Min(SumInterestUnits(Lower(place.category), ints.items, 1), 2 * L),
               2 * L>>

\* _calculate_season_fit, in tenths
CalculateSeasonFit(place, m) ==
    LET category == Lower(place.category)
    IN  IF Contains(KeywordChars["beach"], category)
            THEN IF 6 <= m /\ m <= 8 THEN 10
                 ELSE IF (3 <= m /\ m <= 5) \/ (9 <= m /\ m <= 11) THEN 7
                 ELSE 4
        ELSE IF Contains(KeywordChars["mountain"], category) \/ Contains(KeywordChars["hill"], category)
            THEN IF (3 <= m /\ m <= 5) \/ (9 <= m /\ m <= 11) THEN 10 ELSE 7
        ELSE 8

Abs(x) == IF x < 0 THEN -x ELSE x

\* _calculate_distance_score, in tenths; coordinates are hundredths of a degree
CalculateDistanceScore(place_lat, place_lon, center_lat, center_lon) ==
    LET lat_diff == Abs(place_lat - center_lat)
        lon_diff == Abs(place_lon - center_lon)
        d2 == lat_diff * lat_diff + lon_diff * lon_diff
    IN  IF d2 < 10 * 10 THEN 10
        ELSE IF d2 < 30 * 30 THEN 8
        ELSE IF d2 < 50 * 50 THEN 6
        ELSE 4

\* the search centre of the call, hundredths of a degree
CenterLat == 0
CenterLon == 0

\* CountOf read after the increment instead of before it
CountOf_AfterIncrement(counts, category) ==
    IF category \in DOMAIN counts THEN counts[category] + 1 ELSE 1

\* category_counts[category] of the defaultdict(int)
CountOf(counts, category) ==
    IF category \in DOMAIN counts THEN counts[category] ELSE 0

\* FinalScore with the five sub-scores weighted 0.2 each
FinalScore_EqualWeights(pop, int, sea, dist, n) ==
    LET den == int[2] * (10 + n)
        num == (20 * pop + 200 * sea + 200 * dist) * den
               + 2000 * int[1] * (10 + n)
               + 20000 * int[2]
    IN  RoundDiv(num, den)

\* FinalScore summed from the sub-scores as score_breakdown stores them,
\* each rounded to 2 decimals first
FinalScore_FromRounded(pop, int, sea, dist, n) ==
    35 * pop + 25 * RoundDiv(100 * int[1], int[2]) + 200 * sea + 100 * dist
    + 10 * RoundDiv(1000, 10 + n)

\* round(final_score, 4), in ten-thousandths: the weighted sum
\* 0.35 pop + 0.25 interest + 0.20 season + 0.10 distance + 0.10 /(1 + 0.1 n)
FinalScore(pop, int, sea, dist, n) ==
    LET den == int[2] * (10 + n)
        num == (35 * pop + 200 * sea + 100 * dist) * den
               + 2500 * int[1] * (10 + n)
               + 10000 * int[2]
    IN  RoundDiv(num, den)

\* the score_breakdown dict, every entry round(x, 2), in hundredths
ScoreBreakdown(pop, int, sea, dist, n) ==
    [popularity |-> pop,
     interest_match |-> RoundDiv(100 * int[1], int[2]),
     season_fit |-> 10 * sea,
     distance |-> 10 * dist,
     diversity |-> RoundDiv(1000, 10 + n)]

\* one pass of the scoring loop over place i
ScorePlace(place, ints, m, n) ==
    LET pop == CalculatePopularity(place)
        int == CalculateInterestMatch(place, ints)
        sea == CalculateSeasonFit(place, m)
        dist == CalculateDistanceScore(place.lat, place.lon, CenterLat, CenterLon)
    IN  [place EXCEPT !.rank_score = FinalScore(pop, int, sea, dist, n),
                      !.score_breakdown = ScoreBreakdown(pop, int, sea, dist, n)]

\* the scoring loop: places i.. of ps with the running category_counts
RECURSIVE ScoreLoop(_, _, _, _, _)
ScoreLoop(ps, ints, m, i, counts) ==
    IF i > Len(ps) THEN ps
    ELSE LET category == ps[i].category
             n == CountOf(counts, category)
             counts2 == [c \in DOMAIN counts \cup {category} |->
                            IF c = category THEN n + 1 ELSE counts[c]]
         IN  ScoreLoop([ps EXCEPT ![i] = ScorePlace(ps[i], ints, m, n)],
                       ints, m, i + 1, counts2)

\* StableSlot with equal keys overtaken: the later of two equals comes first
StableSlot_BeforeEquals(out, ps, x) ==
    LET smaller == {k \in 1..Len(out) : ps[out[k]].rank_score <= ps[x].rank_score}
    IN  IF smaller = {} THEN Len(out) + 1
        ELSE CHOOSE k \in smaller : \A j \in smaller : k <= j

\* sorted(): where x goes in a list already in order, behind its equals
StableSlot(out, ps, x) ==
    LET smaller == {k \in 1..Len(out) : ps[out[k]].rank_score < ps[x].rank_score}
    IN  IF smaller = {} THEN Len(out) + 1
        ELSE CHOOSE k \in smaller : \A j \in smaller : k <= j

\* sorted(scored_places, key=rank_score, reverse=True) as the list of indexes
RECURSIVE SortedDesc(_, _, _)
SortedDesc(ps, i, out) ==
    IF i > Len(ps) THEN out
    ELSE LET k == StableSlot(out, ps, i)
         IN  SortedDesc(ps, i + 1,
                        SubSeq(out, 1, k - 1) \o <<i>> \o SubSeq(out, k, Len(out)))

\* RankOf with enumerate's default start of 0
RankOf_FromZero(i) == i - 1

\* enumerate(ranked, 1): the rank of the place at output position i
RankOf(i) == i

\* the dicts of the caller's list after the call: scored, and ranked
RankedPlaces(ps, ints, m) ==
    LET scored == ScoreLoop(ps, ints, m, 1, <<>>)
        order == SortedDesc(scored, 1, <<>>)
        pos(j) == CHOOSE k \in 1..Len(order) : order[k] = j
    IN  [j \in 1..Len(ps) |-> [scored[j] EXCEPT !.rank = RankOf(pos(j))]]

\* the order of the returned list, as indexes into the caller's list
RankedOrder(ps, ints, m) ==
    SortedDesc(ScoreLoop(ps, ints, m, 1, <<>>), 1, <<>>)

----------------------------------------------------------------------------
(* MLBudgetModel and MLRankingModel: train, predict, save, load.           *)
(* The two classes share this code line for line; cls says which one runs. *)

\* what an attribute of a model, or a file, holds
Obj(kind, src, cols, fitted) ==
    [kind |-> kind, src |-> src, cols |-> cols, fitted |-> fitted]

None == Obj("None", 0, <<>>, FALSE)

\* StandardScaler(): a scaler not fitted yet
NewScaler == Obj("scaler", 0, <<>>, FALSE)

\* a Python list of feature names
List(cols) == Obj("list", 0, cols, TRUE)

\* __init__ without a model_path
NewModel ==
    [model |-> None, scaler |-> NewScaler, feature_names |-> List(<<>>),
     is_trained |-> FALSE]

\* the instance the training script builds, trains and saves, and the instance
\* the serving process builds and loads
Trainer == "trainer"

Server == "server"

Instances == {Trainer, Server}

\* the model name each class saves and loads under
ModelName(c) == IF c = "MLBudgetModel" THEN "budget_model" ELSE "ranking_model"

ModelPath(model_name) == model_name \o ".joblib"

\* the scaler's path without its suffix: the regressor's path
ScalerPath_NoSuffix(model_name) == model_name \o ".joblib"

ScalerPath(model_name) == model_name \o "_scaler.joblib"

FeaturesPath(model_name) == model_name \o "_features.joblib"

Paths(model_name) ==
    <<ModelPath(model_name), ScalerPath(model_name), FeaturesPath(model_name)>>

AllPaths ==
    UNION { {Paths(ModelName(c))[k] : k \in 1..3} :
            c \in {"MLBudgetModel", "MLRankingModel"} }

\* a file: missing, whole (what was dumped, and by which save call), or cut short
NoFile == [state |-> "missing", val |-> None, save |-> 0]

File(val, sid) == [state |-> "ok", val |-> val, save |-> sid]

CorruptFile(sid) == [state |-> "corrupt", val |-> None, save |-> sid]

\* the column lists train is called with
TrainColumns ==
    { <<"num_days", "num_people">>,
      <<"num_people", "num_days", "accommodation_level">> }

\* the frames predict is called with: their columns and their number of rows
PredictFrames ==
    { [cols |-> {"num_days", "num_people", "accommodation_level", "extra"},
       rows |-> 2],
      [cols |-> {"num_days", "extra"}, rows |-> 1] }

\* the trip_features dicts predict_trip_budget is called with: their keys
TripFeatureKeys ==
    { {"num_days", "num_people", "accommodation_level",
       "destination_cost_index", "season_multiplier"},
      {"num_days"} }

Range(q) == {q[k] : k \in 1..Len(q)}

NoCall ==
    [op |-> "none", inst |-> "", name |-> "", result |-> "", out |-> None,
     rows |-> 0, was_trained |-> FALSE, x |-> {}, prev_save |-> "",
     files |-> <<NoFile, NoFile, NoFile>>]

Call(op, i, name, result) ==
    [NoCall EXCEPT !.op = op, !.inst = i, !.name = name, !.result = result,
                   !.was_trained = inst[i].is_trained]

\* train with is_trained set before the regressor is fitted
Trained_FlagBeforeFit(self, cols, t, how) ==
    LET named == [self EXCEPT !.feature_names = List(cols)]
    IN  IF how = "scaler_raises_unfitted"
            THEN [named EXCEPT !.scaler = NewScaler]
        ELSE IF how = "scaler_raises" THEN named
        ELSE [named EXCEPT !.scaler = Obj("scaler", t, cols, TRUE),
                           !.model = Obj("regressor", t, cols, how = "ok"),
                           !.is_trained = TRUE]

\* train(X, y, model_type) on self: how the instance is left.  how says where
\* the call ends: "ok", or the step that raises
Trained(self, cols, t, how) ==
    LET named == [self EXCEPT !.feature_names = List(cols)]
    IN  IF how = "scaler_raises_unfitted"
            THEN [named EXCEPT !.scaler = NewScaler]
        ELSE IF how = "scaler_raises" THEN named
        ELSE LET scaled == [named EXCEPT !.scaler = Obj("scaler", t, cols, TRUE)]
             IN  IF how = "fit_raises"
                     THEN [scaled EXCEPT !.model = Obj("regressor", t, cols, FALSE)]
                 ELSE [scaled EXCEPT !.model = Obj("regressor", t, cols, TRUE),
                                     !.is_trained = TRUE]

TrainOutcomes == {"ok", "scaler_raises", "scaler_raises_unfitted", "fit_raises"}

Train(i) ==
    /\ i = Trainer
    /\ ntrain < MaxTrains
    /\ \E cols \in TrainColumns, how \in TrainOutcomes :
          /\ inst' = [inst EXCEPT ![i] = Trained(inst[i], cols, ntrain + 1, how)]
          /\ completed' = [completed EXCEPT ![i] = completed[i] \/ how = "ok"]
          /\ train_done' = [train_done EXCEPT ![i] = train_done[i] \/ how = "ok"]
          /\ last' = Call("train", i, "", IF how = "ok" THEN "ok" ELSE "raised")
    /\ ntrain' = ntrain + 1
    /\ UNCHANGED <<cls, disk, nsave, rankVars, mlVars, routeVars, featVars, ensVars, interactions_df, dataset>>

\* scaler.transform(X) then model.predict(X_scaled) on a frame of these columns
CanInfer(self, cols) ==
    /\ self.scaler.kind = "scaler" /\ self.scaler.fitted
    /\ Len(self.scaler.cols) = Len(cols)
    /\ self.model.kind = "regressor" /\ self.model.fitted
    /\ Len(self.model.cols) = Len(cols)

\* predict(X): how the call ends
PredictResult(self, xcols) ==
    IF ~self.is_trained THEN "not_trained"
    ELSE IF self.feature_names.kind # "list" THEN "raised"
    ELSE IF ~(Range(self.feature_names.cols) \subseteq xcols) THEN "key_error"
    ELSE IF ~CanInfer(self, self.feature_names.cols) THEN "raised"
    ELSE "ok"

\* the predictions: fixed by the regressor, the scaler and the columns fed in order
Predictions(self) ==
    Obj("predictions", self.model.src, self.feature_names.cols, self.scaler.fitted)

Predict(i) ==
    /\ \E X \in PredictFrames :
          LET r == PredictResult(inst[i], X.cols)
          IN  last' = [Call("predict", i, "", r) EXCEPT
                          !.x = X.cols,
                          !.out = IF r = "ok" THEN Predictions(inst[i]) ELSE None,
                          !.rows = IF r = "ok" THEN X.rows ELSE 0]
    /\ UNCHANGED <<cls, inst, disk, completed, train_done, ntrain, nsave, rankVars, mlVars, routeVars, featVars, ensVars, interactions_df, dataset>>

\* predict_trip_budget(trip_features): a one-row frame, absent features set to 0
TripBudgetResult(self, keys) ==
    IF ~self.is_trained THEN "not_trained"
    ELSE IF self.feature_names.kind # "list" THEN "raised"
    ELSE PredictResult(self, keys \cup Range(self.feature_names.cols))

PredictTripBudget(i) ==
    /\ cls = "MLBudgetModel"
    /\ \E keys \in TripFeatureKeys :
          LET r == TripBudgetResult(inst[i], keys)
          IN  last' = [Call("predict_trip_budget", i, "", r) EXCEPT
                          !.x = keys,
                          !.out = IF r = "ok" THEN Predictions(inst[i]) ELSE None,
                          !.rows = IF r = "ok" THEN 1 ELSE 0]
    /\ UNCHANGED <<cls, inst, disk, completed, train_done, ntrain, nsave, rankVars, mlVars, routeVars, featVars, ensVars, interactions_df, dataset>>

\* joblib.dump(val, path) of save call sid: done, or raising with the file
\* left as it was (how = "kept") or cut short (how = "cut")
Dump(d, path, val, sid, how) ==
    IF how = "done" THEN [d EXCEPT ![path] = File(val, sid)]
    ELSE IF how = "cut" THEN [d EXCEPT ![path] = CorruptFile(sid)]
    ELSE d

\* the three joblib.dump calls of save, in order: dumps 1..upto are done, and
\* when upto < 3 dump upto+1 raises and ends the try block
Dumped(d, self, model_name, sid, upto, how) ==
    LET d1 == Dump(d, ModelPath(model_name), self.model, sid,
                   IF upto >= 1 THEN "done" ELSE how)
        d2 == Dump(d1, ScalerPath(model_name), self.scaler, sid,
                   IF upto >= 2 THEN "done" ELSE how)
        d3 == Dump(d2, FeaturesPath(model_name), self.feature_names, sid,
                   IF upto >= 3 THEN "done" ELSE how)
    IN  IF upto = 0 THEN d1 ELSE IF upto = 1 THEN d2 ELSE d3

Save(i) ==
    LET model_name == ModelName(cls)
    IN  \/ /\ ~inst[i].is_trained
           /\ last' = Call("save", i, model_name, "no_trained_model")
           /\ UNCHANGED <<cls, inst, disk, completed, train_done, ntrain, nsave, rankVars, mlVars, routeVars, featVars, ensVars, interactions_df, dataset>>
        \/ /\ inst[i].is_trained
           /\ i = Trainer
           /\ nsave < MaxSaves
           /\ nsave' = nsave + 1
           /\ \E upto \in 0..3, how \in {"kept", "cut"} :
                 /\ upto = 3 => how = "kept"
                 /\ disk' = Dumped(disk, inst[i], model_name, nsave + 1, upto, how)
                 /\ last' = Call("save", i, model_name,
                                 IF upto = 3 THEN "True" ELSE "False")
           /\ UNCHANGED <<cls, inst, completed, train_done, ntrain, rankVars, mlVars, routeVars, featVars, ensVars, interactions_df, dataset>>

\* joblib.load(path) succeeds on a whole file
Readable(f) == f.state = "ok"

\* load with is_trained set as soon as the regressor is read
Loaded_FlagEarly(self, d, model_name) ==
    LET m == d[ModelPath(model_name)]
        sc == d[ScalerPath(model_name)]
        fe == d[FeaturesPath(model_name)]
    IN  IF m.state = "missing" \/ ~Readable(m) THEN self
        ELSE IF ~Readable(sc) THEN [self EXCEPT !.model = m.val, !.is_trained = TRUE]
        ELSE IF ~Readable(fe)
            THEN [self EXCEPT !.model = m.val, !.scaler = sc.val, !.is_trained = TRUE]
        ELSE [model |-> m.val, scaler |-> sc.val, feature_names |-> fe.val,
              is_trained |-> TRUE]

\* load(model_name) on self: how the instance is left
Loaded(self, d, model_name) ==
    LET m == d[ModelPath(model_name)]
        sc == d[ScalerPath(model_name)]
        fe == d[FeaturesPath(model_name)]
    IN  IF m.state = "missing" \/ ~Readable(m) THEN self
        ELSE IF ~Readable(sc) THEN [self EXCEPT !.model = m.val]
        ELSE IF ~Readable(fe) THEN [self EXCEPT !.model = m.val, !.scaler = sc.val]
        ELSE [model |-> m.val, scaler |-> sc.val, feature_names |-> fe.val,
              is_trained |-> TRUE]

\* load(model_name): how the call ends
LoadResult(d, model_name) ==
    IF d[ModelPath(model_name)].state = "missing" THEN "file_not_found"
    ELSE IF \E k \in 1..3 : ~Readable(d[Paths(model_name)[k]]) THEN "raised"
    ELSE "ok"

Load(i) ==
    LET model_name == ModelName(cls)
        r == LoadResult(disk, model_name)
    IN  /\ inst' = [inst EXCEPT ![i] = Loaded(inst[i], disk, model_name)]
        /\ completed' = [completed EXCEPT ![i] = completed[i] \/ r = "ok"]
        /\ last' = [Call("load", i, model_name, r) EXCEPT
                       !.files = [k \in 1..3 |-> disk[Paths(model_name)[k]]],
                       !.prev_save =
                           IF last.op = "save" /\ last.result = "True"
                              /\ last.name = model_name
                           THEN last.inst ELSE ""]
        /\ UNCHANGED <<cls, disk, train_done, ntrain, nsave, rankVars, mlVars, routeVars, featVars, ensVars, interactions_df, dataset>>

ModelInit ==
    /\ cls \in {"MLBudgetModel", "MLRankingModel"}
    /\ inst = [i \in Instances |-> NewModel]
    /\ disk = [p \in AllPaths |-> NoFile]
    /\ completed = [i \in Instances |-> FALSE]
    /\ train_done = [i \in Instances |-> FALSE]
    /\ ntrain = 0
    /\ nsave = 0
    /\ last = NoCall

ModelIdle ==
    /\ cls = "MLBudgetModel"
    /\ inst = [i \in Instances |-> NewModel]
    /\ disk = [p \in AllPaths |-> NoFile]
    /\ completed = [i \in Instances |-> FALSE]
    /\ train_done = [i \in Instances |-> FALSE]
    /\ ntrain = 0
    /\ nsave = 0
    /\ last = NoCall


----------------------------------------------------------------------------
(* The place scorer as a state machine: one _rank_places call *)

\* a place dict as the map-data service returns it: not scored, not ranked
NewPlace(category, wikipedia, website, description, tourism, lat, lon) ==
    [category |-> category, wikipedia |-> wikipedia, website |-> website,
     description |-> description, tourism |-> tourism, lat |-> lat, lon |-> lon,
     rank_score |-> -1,
     score_breakdown |-> [popularity |-> -1, interest_match |-> -1,
                          season_fit |-> -1, distance |-> -1, diversity |-> -1],
     rank |-> -1]

\* the tags of a map element that decide its category; "" is an absent tag
Tags(natural, tourism, historic, amenity, religion, leisure) ==
    [natural |-> natural, tourism |-> tourism, historic |-> historic,
     amenity |-> amenity, religion |-> religion, leisure |-> leisure]

\* OverpassService._categorize_place(tags)
CategorizePlace(tags) ==
    IF tags.natural = "beach" THEN CategoryChars["Beach"]
    ELSE IF tags.natural = "peak" THEN CategoryChars["Mountain"]
    ELSE IF tags.natural = "waterfall" THEN CategoryChars["Waterfall"]
    ELSE IF tags.tourism = "attraction" THEN CategoryChars["Tourist Attraction"]
    ELSE IF tags.tourism = "museum" THEN CategoryChars["Museum"]
    ELSE IF tags.tourism = "viewpoint" THEN CategoryChars["Viewpoint"]
    ELSE IF tags.historic = "monument" THEN CategoryChars["Monument"]
    ELSE IF tags.historic = "castle" THEN CategoryChars["Castle"]
    ELSE IF tags.historic = "archaeological_site" THEN CategoryChars["Archaeological Site"]
    ELSE IF tags.amenity = "place_of_worship"
        THEN IF tags.religion = "hindu" THEN CategoryChars["Hindu Temple"]
             ELSE IF tags.religion = "" THEN CategoryChars["Religious Site Temple"]
             ELSE CategoryChars["Temple"]
    ELSE IF tags.leisure = "park" THEN CategoryChars["Park"]
    ELSE CategoryChars["Point of Interest"]

\* the tourism tag as the place dict carries it
TourismTag(tags) ==
    IF tags.tourism = "attraction" THEN KeywordChars["attraction"]
    ELSE IF tags.tourism = "museum" THEN KeywordChars["museum"]
    ELSE IF tags.tourism = "viewpoint" THEN KeywordChars["viewpoint"]
    ELSE <<>>

\* OverpassService._parse_element on a named element with coordinates
ParseElement(tags, wikipedia, website, description, lat, lon) ==
    NewPlace(CategorizePlace(tags), wikipedia, website, description,
             TourismTag(tags), lat, lon)

\* five places of the service, for the lists of several places
PlaceUniverse ==
    { ParseElement(Tags("beach", "", "", "", "", ""), FALSE, FALSE, FALSE, 1, 1),
      ParseElement(Tags("peak", "", "", "", "", ""), TRUE, FALSE, FALSE, 60, 0),
      ParseElement(Tags("", "museum", "", "", "", ""), FALSE, FALSE, FALSE, 5, 5),
      ParseElement(Tags("", "", "", "", "", "park"), FALSE, FALSE, FALSE, 3, 4),
      ParseElement(Tags("", "attraction", "", "", "", ""), FALSE, TRUE, FALSE,
                   20, 10) }

\* tag sets of map elements: natural and tourism tags in every combination,
\* and one element for each of the other categories
ElementTags ==
    { Tags(n, t, "", "", "", "") :
        n \in {"", "beach", "peak"}, t \in {"", "attraction", "museum"} }
    \cup { Tags("waterfall", "", "", "", "", ""),
           Tags("", "viewpoint", "", "", "", ""),
           Tags("", "", "monument", "", "", ""),
           Tags("", "", "castle", "", "", ""),
           Tags("", "", "archaeological_site", "", "", ""),
           Tags("", "", "", "place_of_worship", "hindu", ""),
           Tags("", "", "", "place_of_worship", "", ""),
           Tags("", "", "", "", "", "park") }

\* the places the map-data service builds from those elements, lying 0.01,
\* 0.2 or 0.6 of a degree from the centre (positions in hundredths)
ElementPlaces ==
    { ParseElement(tags, wi, we, de, pos[1], pos[2]) :
        tags \in ElementTags, wi \in BOOLEAN, we \in BOOLEAN, de \in BOOLEAN,
        pos \in { <<1, 1>>, <<20, 10>>, <<60, 0>> } }

\* the lists _rank_places is called with: lists of the places above, and
\* every single place of the service
PlaceLists ==
    UNION { [1..n -> PlaceUniverse] : n \in 0..MaxPlaces }
    \cup { <<p>> : p \in ElementPlaces }

InterestInputs ==
    { [isNone |-> TRUE, items |-> <<>>],
      [isNone |-> FALSE, items |-> <<>>],
      [isNone |-> FALSE, items |-> <<KeywordChars["beach"]>>],
      [isNone |-> FALSE, items |-> <<KeywordChars["nature"], CategoryChars["Beach"]>>],
      [isNone |-> FALSE, items |-> <<KeywordChars["food"]>>],
      [isNone |-> FALSE, items |-> <<KeywordChars["religious"]>>],
      [isNone |-> FALSE, items |-> <<KeywordChars["nature"], KeywordChars["nature"]>>],
      [isNone |-> FALSE, items |-> <<KeywordChars["culture"], KeywordChars["history"], KeywordChars["heritage"]>>] }

RankInit ==
    /\ places \in PlaceLists
    /\ interests \in InterestInputs
    /\ month \in 1..12
    /\ ranked = <<>>
    /\ rpc = "call"

\* the other components at rest, for a specification about this one alone
RankIdle ==
    /\ places = <<>>
    /\ interests = [isNone |-> TRUE, items |-> <<>>]
    /\ month = 1
    /\ ranked = <<>>
    /\ rpc = "idle"

\* OSMRecommender._rank_places(places, interests, center_lat, center_lon)
RankPlaces ==
    /\ rpc = "call"
    /\ places' = RankedPlaces(places, interests, month)
    /\ ranked' = RankedOrder(places, interests, month)
    /\ rpc' = "done"
    /\ UNCHANGED <<interests, month, modelVars, mlVars, routeVars, featVars, ensVars, interactions_df, dataset>>


----------------------------------------------------------------------------
(* MLRankingModel.rank_places and its fallback scorer.                     *)
(* A frame is its set of columns and its rows, a row a function of the     *)
(* columns; ratings are in tenths, scores in ten-thousandths.              *)

MaxRows == 2

MaxTopK == 3

\* one row of a places frame
SamplePlace(id, name, category, rating, reviews_count, price_level) ==
    [place_id |-> id, name |-> name, category |-> category, rating |-> rating,
     reviews_count |-> reviews_count, price_level |-> price_level]

\* the sample places of the /places/recommend route, and a place with its
\* category capitalised as the map-data service writes it
SamplePlaces ==
    { SamplePlace(1, "Museum", "museum", 47, 234, 2),
      SamplePlace(2, "Restaurant", "restaurant", 45, 156, 2),
      SamplePlace(3, "Park", "park", 43, 89, 1),
      SamplePlace(4, "Beach", "beach", 48, 345, 1),
      SamplePlace(5, "Shopping Center", "shopping", 42, 123, 3),
      SamplePlace(6, "Marina Beach", "Beach", 45, 0, 2) }

AllColumns ==
    {"place_id", "name", "category", "rating", "reviews_count", "price_level"}

\* a frame with these columns over these places
Frame(cols, ps) ==
    [cols |-> cols, rows |-> [k \in 1..Len(ps) |-> [c \in cols |-> ps[k][c]]]]

Frames ==
    { Frame(cols, ps) :
        cols \in {AllColumns, {"name", "category"}},
        ps \in UNION { [1..n -> SamplePlaces] : n \in 0..MaxRows } }

\* user-feature dicts: what the route builds, what create_user_features builds
UserFeatureDicts ==
    { <<>>,
      [k \in {"interest_culture", "interest_food", "budget_encoded"} |->
          IF k = "budget_encoded" THEN 2 ELSE 1],
      [k \in {"interest_beach", "interest_relaxation", "interest_food",
              "budget_encoded", "travel_pace"} |->
          IF k = "budget_encoded" THEN 4
          ELSE IF k = "travel_pace" THEN 2
          ELSE IF k = "interest_food" THEN 0 ELSE 1],
      [k \in {"interest_nature"} |-> 1] }

\* k.startswith('interest_') and k.replace('interest_', ''): the interest a key
\* names, "" when the key is not an interest flag
InterestOfKey(k) ==
    IF k = "interest_culture" THEN "culture"
    ELSE IF k = "interest_food" THEN "food"
    ELSE IF k = "interest_beach" THEN "beach"
    ELSE IF k = "interest_relaxation" THEN "relaxation"
    ELSE IF k = "interest_nature" THEN "nature"
    ELSE ""

\* str.lower() on the category values of the frames
LowerName(c) == IF c = "Beach" THEN "beach" ELSE c

\* category_interest_map.get(category, [])
CategoryInterests(category) ==
    IF category = "museum" THEN {"culture", "history"}
    ELSE IF category = "restaurant" THEN {"food"}
    ELSE IF category = "park" THEN {"nature", "relaxation"}
    ELSE IF category = "beach" THEN {"beach", "relaxation"}
    ELSE IF category = "shopping" THEN {"shopping"}
    ELSE IF category = "nightlife" THEN {"nightlife"}
    ELSE IF category = "attraction" THEN {"culture", "adventure"}
    ELSE {}

\* np.log1p(reviews_count) / 10 on the review counts of the frames
Log1pOver10(n) ==
    IF n = 234 THEN 5460
    ELSE IF n = 156 THEN 5056
    ELSE IF n = 89 THEN 4500
    ELSE IF n = 345 THEN 5846
    ELSE IF n = 123 THEN 4820
    ELSE 0

\* dict.get(key, default)
Get(d, key, default) == IF key \in DOMAIN d THEN d[key] ELSE default

\* the interests the user features switch on
UserInterests(uf) ==
    { InterestOfKey(k) : k \in {j \in DOMAIN uf : InterestOfKey(j) # "" /\ uf[j] = 1} }

\* the score column of _fallback_ranking for one row
FallbackScore(df, row, uf) ==
    LET base == IF "rating" \in df.cols THEN row["rating"] * 200 ELSE 8000
        pop == IF "reviews_count" \in df.cols
                   THEN Log1pOver10(row["reviews_count"]) ELSE 0
        user_budget == Get(uf, "budget_encoded", 2)
        penalty == IF "price_level" \in df.cols
                       THEN Abs(row["price_level"] - user_budget) * 1000 ELSE 0
        boost == IF "category" \in df.cols /\ UserInterests(uf) # {}
                     THEN 2000 * Cardinality(UserInterests(uf)
                              \cap CategoryInterests(LowerName(row["category"])))
                     ELSE 0
    IN  base + pop - penalty + boost

\* head() without its argument: pandas' default of five rows
HeadRows_Default(q, k) == SubSeq(q, 1, Min(5, Len(q)))

\* DataFrame.head(k), k >= 0
HeadRows(q, k) == SubSeq(q, 1, Min(k, Len(q)))

\* sort_values(column, ascending=False): the row numbers in sorted order
SortValuesDesc(keys) ==
    SortedDesc([k \in 1..Len(keys) |-> [rank_score |-> keys[k]]], 1, <<>>)

\* one dict of the list rank_places returns
ResultRow(df, k, score) ==
    LET row == df.rows[k]
    IN  [place_id |-> Get(row, "place_id", k - 1),
         name |-> Get(row, "name", "Unknown"),
         score |-> score,
         rating |-> Get(row, "rating", 0),
         category |-> Get(row, "category", "Unknown"),
         price_level |-> Get(row, "price_level", 2)]

\* the result list: the first k rows by descending score
TopRows(df, scores, k) ==
    LET order == HeadRows(SortValuesDesc(scores), k)
    IN  [j \in 1..Len(order) |-> ResultRow(df, order[j], scores[order[j]])]

\* _fallback_ranking(places_df, user_features, top_k)
FallbackRanking(df, uf, k) ==
    TopRows(df, [j \in 1..Len(df.rows) |-> FallbackScore(df, df.rows[j], uf)], k)

\* places_df[key] = value for every user feature
WithUserFeatures(df, uf) ==
    [cols |-> df.cols \cup DOMAIN uf,
     rows |-> [k \in 1..Len(df.rows) |->
                 [c \in df.cols \cup DOMAIN uf |->
                     IF c \in DOMAIN uf THEN uf[c] ELSE df.rows[k][c]]]]

\* places_df['ml_score'] = scores
WithColumn(df, name, vals) ==
    [cols |-> df.cols \cup {name},
     rows |-> [k \in 1..Len(df.rows) |->
                 [c \in df.cols \cup {name} |->
                     IF c = name THEN vals[k] ELSE df.rows[k][c]]]]

\* rank_places without the try/except around the prediction
RankPlacesML_NoExcept(self, df, uf, k, scores) ==
    IF ~self.is_trained
        THEN [status |-> "returned", path |-> "fallback",
              list |-> FallbackRanking(df, uf, k), df |-> df]
    ELSE LET wide == WithUserFeatures(df, uf)
         IN  IF PredictResult(self, wide.cols) # "ok"
                 THEN [status |-> "raised", path |-> "model", list |-> <<>>,
                       df |-> wide]
             ELSE [status |-> "returned", path |-> "model",
                   list |-> TopRows(wide, scores, k),
                   df |-> WithColumn(wide, "ml_score", scores)]

\* rank_places(places_df, user_features, top_k): how it ends, what it returns
\* and the caller's frame afterwards; scores is what the regressor predicts
RankPlacesML(self, df, uf, k, scores) ==
    IF ~self.is_trained
        THEN [status |-> "returned", path |-> "fallback",
              list |-> FallbackRanking(df, uf, k), df |-> df]
    ELSE LET wide == WithUserFeatures(df, uf)
         IN  IF PredictResult(self, wide.cols) # "ok"
                 THEN [status |-> "returned", path |-> "fallback",
                       list |-> FallbackRanking(wide, uf, k), df |-> wide]
             ELSE [status |-> "returned", path |-> "model",
                   list |-> TopRows(wide, scores, k),
                   df |-> WithColumn(wide, "ml_score", scores)]

\* the model instances rank_places is called on
Rankers ==
    { NewModel,
      Trained(NewModel, <<"rating", "price_level", "budget_encoded">>, 1, "ok"),
      Trained(NewModel, <<"rating", "quality_score">>, 1, "ok"),
      Trained(Trained(NewModel, <<"rating", "price_level">>, 1, "ok"),
              <<"rating", "price_level">>, 2, "fit_raises") }

\* what a regressor can predict for a row
PredictedScores == {1, 2}

NoResults == [status |-> "call", path |-> "", list |-> <<>>, given |-> Frame({}, <<>>)]

MlInit ==
    /\ ranker \in Rankers
    /\ places_df \in Frames
    /\ user_features \in UserFeatureDicts
    /\ top_k \in 0..MaxTopK
    /\ ml_scores = <<>>
    /\ results = NoResults

MlIdle ==
    /\ ranker = NewModel
    /\ places_df = Frame({}, <<>>)
    /\ user_features = <<>>
    /\ top_k = 0
    /\ ml_scores = <<>>
    /\ results = [NoResults EXCEPT !.status = "idle"]

RankPlacesCall ==
    /\ results.status = "call"
    /\ \E scores \in [1..Len(places_df.rows) -> PredictedScores] :
          LET r == RankPlacesML(ranker, places_df, user_features, top_k, scores)
          IN  /\ ml_scores' = IF r.path = "model" THEN scores ELSE <<>>
              /\ results' = [status |-> r.status, path |-> r.path, list |-> r.list,
                             given |-> places_df]
              /\ places_df' = r.df
    /\ UNCHANGED <<ranker, user_features, top_k, rankVars, modelVars, routeVars, featVars, ensVars, interactions_df, dataset>>

----------------------------------------------------------------------------
(* The routes that call predict_trip_budget: budget /predict and /estimate, *)
(* trip /plan and /estimate.  One request, one response.                    *)

Routes == {"budget_predict", "budget_estimate", "trip_plan", "trip_estimate"}

\* what the budget model predicts for the trip: it may extrapolate below zero
BudgetPredictions == {-100, 700}

Requests ==
    { r \in [route : Routes, num_days : {-1, 0, 1, 365, 366}, num_people : {0, 1, 50, 51},
             accommodation_level : {0, 3, 6}, dates_ok : BOOLEAN] :
        /\ r.route # "trip_plan" => r.dates_ok
        /\ r.route \in {"trip_plan", "trip_estimate"} => r.accommodation_level = 3 }

NoResponse ==
    [status |-> 0, detail |-> "", model_loaded |-> FALSE, model_invoked |-> FALSE,
     budget |-> 0]

Response(status, detail, loaded, invoked, budget) ==
    [status |-> status, detail |-> detail, model_loaded |-> loaded,
     model_invoked |-> invoked, budget |-> budget]

\* the range checks of the budget routes and of trip /estimate: the detail of
\* the HTTPException(400) raised, "" when none is
RangeError(num_days, num_people) ==
    IF num_days < 1 \/ num_days > 365 THEN "num_days must be between 1 and 365"
    ELSE IF num_people < 1 \/ num_people > 50
        THEN "num_people must be between 1 and 50"
    ELSE ""

LevelError(accommodation_level) ==
    IF accommodation_level < 1 \/ accommodation_level > 5
        THEN "accommodation_level must be between 1 and 5"
    ELSE ""

\* MLBudgetModel(); load('budget_model'); predict_trip_budget(trip_features);
\* abs() of a negative prediction; then the response of the route
WithModel(ok, predicted, status_after) ==
    IF ~ok THEN Response(500, "load raised", FALSE, FALSE, 0)
    ELSE Response(status_after, "", TRUE, TRUE, Abs(predicted))

\* budget.py: except HTTPException: raise -- the 400 goes out as raised
BudgetRoute(req, ok, predicted) ==
    LET e1 == RangeError(req.num_days, req.num_people)
        e2 == LevelError(req.accommodation_level)
    IN  IF e1 # "" THEN Response(400, e1, FALSE, FALSE, 0)
        ELSE IF e2 # "" THEN Response(400, e2, FALSE, FALSE, 0)
        ELSE WithModel(ok, predicted, 200)

\* trip.py /estimate: except Exception catches the HTTPException(400) too and
\* raises HTTPException(500) in its place
EstimateTripRoute(req, ok, predicted) ==
    LET e1 == RangeError(req.num_days, req.num_people)
    IN  IF e1 # "" THEN Response(500, e1, FALSE, FALSE, 0)
        ELSE WithModel(ok, predicted, 200)

\* trip.py /plan: only num_days <= 0 is checked, its 400 is caught and sent as
\* 500; after the model call TAMIL_NADU_PLACES is an unbound name, and the
\* NameError is sent as 500
PlanTripRoute(req, ok, predicted) ==
    IF ~req.dates_ok THEN Response(500, "Invalid isoformat string", FALSE, FALSE, 0)
    ELSE IF req.num_days <= 0
        THEN Response(500, "End date must be after start date", FALSE, FALSE, 0)
    ELSE [WithModel(ok, predicted, 500) EXCEPT
             !.detail = IF ok THEN "name 'TAMIL_NADU_PLACES' is not defined"
                        ELSE "load raised"]

RouteInit ==
    /\ request \in Requests
    /\ artifacts_ok \in BOOLEAN
    /\ response = NoResponse

RouteIdle ==
    /\ request = [route |-> "none", num_days |-> 1, num_people |-> 1,
                  accommodation_level |-> 3, dates_ok |-> TRUE]
    /\ artifacts_ok = FALSE
    /\ response = NoResponse

\* POST /api/budget/predict
PredictBudget ==
    /\ response.status = 0
    /\ request.route = "budget_predict"
    /\ \E predicted \in BudgetPredictions :
          response' = BudgetRoute(request, artifacts_ok, predicted)
    /\ UNCHANGED <<request, artifacts_ok, rankVars, modelVars, mlVars, featVars, ensVars, interactions_df, dataset>>

\* GET /api/budget/estimate/{destination}
EstimateBudget ==
    /\ response.status = 0
    /\ request.route = "budget_estimate"
    /\ \E predicted \in BudgetPredictions :
          response' = BudgetRoute(request, artifacts_ok, predicted)
    /\ UNCHANGED <<request, artifacts_ok, rankVars, modelVars, mlVars, featVars, ensVars, interactions_df, dataset>>

\* POST /api/trip/plan
PlanTrip ==
    /\ response.status = 0
    /\ request.route = "trip_plan"
    /\ \E predicted \in BudgetPredictions :
          response' = PlanTripRoute(request, artifacts_ok, predicted)
    /\ UNCHANGED <<request, artifacts_ok, rankVars, modelVars, mlVars, featVars, ensVars, interactions_df, dataset>>

\* POST /api/trip/estimate
EstimateTrip ==
    /\ response.status = 0
    /\ request.route = "trip_estimate"
    /\ \E predicted \in BudgetPredictions :
          response' = EstimateTripRoute(request, artifacts_ok, predicted)
    /\ UNCHANGED <<request, artifacts_ok, rankVars, modelVars, mlVars, featVars, ensVars, interactions_df, dataset>>

----------------------------------------------------------------------------
(* FeatureEngineer.create_place_features.                                   *)
(* Ratings are in hundredths, positions in thousandths of a degree,         *)
(* logarithms and quality_score in ten-thousandths.                         *)

MaxBatch == 2

\* one row of a raw places frame
RawPlace(category, rating, reviews_count, price_level, latitude, longitude) ==
    [category |-> category, rating |-> rating, reviews_count |-> reviews_count,
     price_level |-> price_level, latitude |-> latitude, longitude |-> longitude]

\* raw places: ratings at 0 and on both sides of the bucket edges, review
\* counts with and without reviews, price levels 1 to 5
RawPlaces ==
    { RawPlace("museum", 0, 9, 1, 40123, -73988),
      RawPlace("beach", 250, 0, 2, 40500, -73500),
      RawPlace("park", 300, 0, 5, 40256, -73744),
      RawPlace("museum", 301, 99, 3, 40999, -73001),
      RawPlace("beach", 400, 9, 4, 40123, -73988),
      RawPlace("park", 401, 99, 1, 40500, -73500),
      RawPlace("restaurant", 500, 9, 2, 40256, -73744),
      RawPlace("shopping", 500, 0, 5, 40999, -73001) }

\* the raw frames: with or without a rating column
RawFrames ==
    [has_rating : BOOLEAN,
     rows : UNION { [1..n -> RawPlaces] : n \in 0..MaxBatch }]

\* df['rating'] = 4.0 when the frame has no rating column
WithRating(df) ==
    IF df.has_rating THEN df.rows
    ELSE [k \in 1..Len(df.rows) |-> [df.rows[k] EXCEPT !.rating = 400]]

\* pd.cut(rating, bins=[0, 3, 4, 5], labels=[0, 1, 2]): the label, -1 for the
\* missing value a rating outside (0, 5] gets
RatingQuality(rating) ==
    IF 0 < rating /\ rating <= 300 THEN 0
    ELSE IF 300 < rating /\ rating <= 400 THEN 1
    ELSE IF 400 < rating /\ rating <= 500 THEN 2
    ELSE -1

\* np.log1p(reviews_count) on the review counts of the frames
Log1p(n) ==
    IF n = 9 THEN 23026
    ELSE IF n = 99 THEN 46052
    ELSE 0

\* Series.max() of a series with an entry
MaxOf(q) ==
    CHOOSE x \in {q[k] : k \in 1..Len(q)} : \A k \in 1..Len(q) : q[k] <= x

\* the k-th smallest entry of q
Kth(q, k) ==
    CHOOSE x \in {q[j] : j \in 1..Len(q)} :
        /\ Cardinality({j \in 1..Len(q) : q[j] < x}) < k
        /\ Cardinality({j \in 1..Len(q) : q[j] <= x}) >= k

\* twice Series.median() of a series with an entry
TwiceMedian(q) ==
    LET n == Len(q)
    IN  IF n % 2 = 1 THEN 2 * Kth(q, (n + 1) \div 2)
        ELSE Kth(q, n \div 2) + Kth(q, n \div 2 + 1)

\* quality_score: 0.4 rating_normalized + 0.3 log_reviews / max + 0.3 (5 - price)/4;
\* 0/0 is NaN, and NaN makes the sum NaN
QualityScore(row, max_log) ==
    IF max_log = 0 THEN [nan |-> TRUE, val |-> 0]
    ELSE [nan |-> FALSE,
          val |-> 8 * row.rating + RoundDiv(3000 * Log1p(row.reviews_count), max_log)
                  + 750 * (5 - row.price_level)]

\* the columns create_place_features adds to one row
PlaceFeatures(rows, k) ==
    LET row == rows[k]
        counts == [j \in 1..Len(rows) |-> rows[j].reviews_count]
        logs == [j \in 1..Len(rows) |-> Log1p(rows[j].reviews_count)]
    IN  [category |-> row.category,
         rating |-> row.rating,
         reviews_count |-> row.reviews_count,
         price_level |-> row.price_level,
         latitude |-> row.latitude,
         longitude |-> row.longitude,
         rating_normalized |-> 2 * row.rating,
         has_rating |-> IF row.rating > 0 THEN 1 ELSE 0,
         rating_quality |-> RatingQuality(row.rating),
         log_reviews |-> Log1p(row.reviews_count),
         popularity_score |-> row.rating * Log1p(row.reviews_count),
         is_popular |-> IF 2 * row.reviews_count > TwiceMedian(counts) THEN 1 ELSE 0,
         price_level_normalized |-> 25 * row.price_level,
         is_budget_friendly |-> IF row.price_level <= 2 THEN 1 ELSE 0,
         is_luxury |-> IF row.price_level >= 3 THEN 1 ELSE 0,
         cat |-> [c \in {rows[j].category : j \in 1..Len(rows)} |->
                    IF c = row.category THEN 1 ELSE 0],
         lat_rounded |-> RoundDiv(row.latitude, 10),
         lon_rounded |-> RoundDiv(row.longitude, 10),
         quality_score |-> QualityScore(row, MaxOf(logs))]

\* create_place_features(places_df): astype(int) raises on a missing
\* rating_quality; otherwise the frame with the new columns
CreatedPlaceFeatures(df) ==
    LET rows == WithRating(df)
    IN  IF \E k \in 1..Len(rows) : RatingQuality(rows[k].rating) = -1
            THEN [status |-> "raised", rows |-> <<>>]
        ELSE [status |-> "returned",
              rows |-> [k \in 1..Len(rows) |-> PlaceFeatures(rows, k)]]

FeatInit ==
    /\ raw_df \in RawFrames
    /\ features = [status |-> "call", rows |-> <<>>]
    /\ interaction = [status |-> "call", user_features |-> <<>>, rows |-> <<>>]

FeatIdle ==
    /\ raw_df = [has_rating |-> TRUE, rows |-> <<>>]
    /\ features = [status |-> "idle", rows |-> <<>>]
    /\ interaction = [status |-> "idle", user_features |-> <<>>, rows |-> <<>>]

\* FeatureEngineer.create_place_features(places_df)
CreatePlaceFeatures ==
    /\ features.status = "call"
    /\ features' = CreatedPlaceFeatures(raw_df)
    /\ UNCHANGED <<raw_df, interaction, rankVars, modelVars, mlVars, routeVars, ensVars, interactions_df, dataset>>

\* create_user_features: all_interests
AllInterests ==
    {"culture", "nature", "food", "adventure", "shopping", "history", "beach",
     "nightlife", "relaxation"}

\* user preference dicts; "" and 0 stand for an absent key
UserPrefs ==
    [budget_level : {"", "low", "medium", "high", "luxury", "backpacker"},
     interests : {{}, {"culture", "food"}, {"beach", "relaxation", "hiking"}},
     travel_style : {"", "relaxed", "packed"},
     group_size : {0, 1, 4}]

\* create_user_features(user_prefs); budget_normalized in hundredths
CreateUserFeatures(user_prefs) ==
    LET level == IF user_prefs.budget_level = "" THEN "medium"
                 ELSE user_prefs.budget_level
        budget_encoded == IF level = "low" THEN 1
                          ELSE IF level = "medium" THEN 2
                          ELSE IF level = "high" THEN 3
                          ELSE IF level = "luxury" THEN 4
                          ELSE 2
        style == IF user_prefs.travel_style = "" THEN "moderate"
                 ELSE user_prefs.travel_style
        group_size == IF user_prefs.group_size = 0 THEN 1 ELSE user_prefs.group_size
    IN  [budget_encoded |-> budget_encoded,
         budget_normalized |-> 25 * budget_encoded,
         interest |-> [i \in AllInterests |->
                          IF i \in user_prefs.interests THEN 1 ELSE 0],
         travel_pace |-> IF style = "relaxed" THEN 1
                         ELSE IF style = "moderate" THEN 2
                         ELSE IF style = "packed" THEN 3
                         ELSE 2,
         group_size |-> group_size,
         is_solo |-> IF group_size = 1 THEN 1 ELSE 0,
         is_group |-> IF group_size >= 4 THEN 1 ELSE 0]

\* budget_match with the difference divided by 2.0
BudgetMatch_OverTwo(price_level, user_budget) ==
    100 - 50 * Abs(price_level - user_budget)

\* budget_match = 1 - abs(price_level - user_budget) / 4.0, in hundredths
BudgetMatch(price_level, user_budget) ==
    100 - 25 * Abs(price_level - user_budget)

\* the columns create_interaction_features adds to one row: budget_match in
\* hundredths, interest_match and compatibility_score as fractions
\* <<numerator, denominator>>, pace_match in tenths
InteractionFeatures(row, uf) ==
    LET user_interests == {i \in AllInterests : uf.interest[i] = 1}
        budget_match == BudgetMatch(row.price_level, uf.budget_encoded)
        matches == Cardinality(user_interests
                               \cap CategoryInterests(LowerName(row.category)))
        den == IF Cardinality(user_interests) >= 1
                   THEN Cardinality(user_interests) ELSE 1
        pace_match ==
            IF uf.travel_pace = 1
                THEN IF row.category \in {"beach", "park", "spa"} THEN 10 ELSE 0
            ELSE IF uf.travel_pace = 3
                THEN IF row.category \in {"attraction", "museum", "shopping"}
                         THEN 10 ELSE 0
            ELSE 5
    IN  [place |-> row,
         budget_match |-> budget_match,
         interest_match |-> <<matches, den>>,
         pace_match |-> pace_match,
         compatibility_score |->
             [nan |-> row.quality_score.nan,
              val |-> <<(300 * budget_match + 3 * row.quality_score.val) * den
                        + 40000 * matches,
                        10 * den>>]]

\* FeatureEngineer.create_interaction_features(places_df, user_features) on
\* the frame create_place_features returned and the features of a user
CreateInteractionFeatures ==
    /\ features.status = "returned"
    /\ interaction.status = "call"
    /\ \E user_prefs \in UserPrefs :
          LET uf == CreateUserFeatures(user_prefs)
          IN  interaction' =
                  [status |-> "returned", user_features |-> uf,
                   rows |-> [k \in 1..Len(features.rows) |->
                               InteractionFeatures(features.rows[k], uf)]]
    /\ UNCHANGED <<raw_df, features, rankVars, modelVars, mlVars, routeVars, ensVars, interactions_df, dataset>>

\* the interactions frames over a places table: each row names a place of the
\* table by its place_id (its row number), a type and the user's own rating;
\* user_id and timestamp take no part in the dataset
InteractionFrames(table) ==
    UNION { [1..n -> [place_id : 1..Len(table.rows),
                      interaction_type : {"view", "save", "visit"},
                      rating : {300, 400, 500}]] : n \in 0..MaxBatch }

\* user_interactions_df.merge(places_df, on='place_id', how='left'): a column
\* both frames have is renamed rating_x and rating_y, and the merged frame
\* then has no rating column
Merged(user_interactions_df, table) ==
    [has_rating |-> ~table.has_rating,
     rows |-> [k \in 1..Len(user_interactions_df) |->
                 LET place == table.rows[user_interactions_df[k].place_id]
                 IN  IF table.has_rating THEN place
                     ELSE [place EXCEPT !.rating = user_interactions_df[k].rating]]]

\* interaction_weights
InteractionWeight(interaction_type) ==
    IF interaction_type = "view" THEN 1
    ELSE IF interaction_type = "save" THEN 3
    ELSE 5

\* create_training_dataset(places_df, user_interactions_df): the rows of the
\* dataset with their target, and the feature columns
CreatedTrainingDataset(table, user_interactions_df) ==
    LET df == Merged(user_interactions_df, table)
        made == CreatedPlaceFeatures(df)
        renamed == IF table.has_rating THEN {"rating_x", "rating_y"} ELSE {}
    IN  IF made.status = "raised"
            THEN [status |-> "raised", rows |-> <<>>, feature_names |-> {}]
        ELSE [status |-> "returned",
              rows |-> [k \in 1..Len(made.rows) |->
                  LET weight == InteractionWeight(
                                    user_interactions_df[k].interaction_type)
                  IN  [features |-> made.rows[k],
                       interaction_rating |-> user_interactions_df[k].rating,
                       place_rating |-> table.rows[
                                            user_interactions_df[k].place_id].rating,
                       interaction_weight |-> weight,
                       target |-> made.rows[k].rating * weight]],
              feature_names |->
                  renamed \cup
                  {"reviews_count", "price_level", "latitude", "longitude",
                   "rating_normalized", "has_rating", "rating_quality",
                   "log_reviews", "popularity_score", "is_popular",
                   "price_level_normalized", "is_budget_friendly", "is_luxury",
                   "lat_rounded", "lon_rounded", "quality_score",
                   "interaction_weight"}
                  \cup {"cat_" \o df.rows[k].category : k \in 1..Len(df.rows)}]

DataInit ==
    /\ raw_df \in RawFrames
    /\ features = [status |-> "idle", rows |-> <<>>]
    /\ interaction = [status |-> "idle", user_features |-> <<>>, rows |-> <<>>]
    /\ interactions_df \in InteractionFrames(raw_df)
    /\ dataset = [status |-> "call", rows |-> <<>>, feature_names |-> {}]

DataIdle ==
    /\ interactions_df = <<>>
    /\ dataset = [status |-> "idle", rows |-> <<>>, feature_names |-> {}]

\* FeatureEngineer.create_training_dataset(places_df, user_interactions_df)
CreateTrainingDataset ==
    /\ dataset.status = "call"
    /\ dataset' = CreatedTrainingDataset(raw_df, interactions_df)
    /\ UNCHANGED <<interactions_df, rankVars, modelVars, mlVars, routeVars, featVars, ensVars>>

----------------------------------------------------------------------------
(* EnsembleRankingModel: add_model and rank_places.                        *)
(* A member is an MLRankingModel; weights[i] is the weight models[i] was    *)
(* added with.  An ensemble score is the fraction <<numerator, sum of the   *)
(* weights used>>, predictions in ten-thousandths.                          *)

MaxMembers == 3

\* EnsembleRankingModel(): no models, no weights
NewEnsemble == [models |-> <<>>, weights |-> <<>>]

\* add_model(model, weight)
AddModel(self, model, weight) ==
    [models |-> Append(self.models, model), weights |-> Append(self.weights, weight)]

\* the models added to an ensemble: untrained, fitted by training run 1 or 2,
\* and one fitted on a column the places frames do not have
MemberModels ==
    { NewModel,
      Trained(NewModel, <<"rating", "price_level">>, 1, "ok"),
      Trained(NewModel, <<"rating", "price_level">>, 2, "ok"),
      Trained(NewModel, <<"rating", "quality_score">>, 1, "ok") }

\* the ensembles after n add_model calls, each with a weight of 1 or 3
RECURSIVE EnsemblesOf(_)
EnsemblesOf(n) ==
    IF n = 0 THEN {NewEnsemble}
    ELSE { AddModel(e, m, w) :
             e \in EnsemblesOf(n - 1), m \in MemberModels, w \in {1, 3} }

Ensembles == UNION { EnsemblesOf(n) : n \in 0..MaxMembers }

\* the frames an ensemble ranks: every column, over two of the sample places
EnsembleFrames ==
    { Frame(AllColumns, ps) :
        ps \in UNION { [1..n -> { p \in SamplePlaces : p.place_id \in {1, 4} }] :
                         n \in 0..MaxRows } }

\* the user features of the call, as the /places/recommend route builds them
EnsembleUserFeatures ==
    [k \in {"interest_culture", "interest_food", "budget_encoded"} |->
        IF k = "budget_encoded" THEN 2 ELSE 1]

\* model.predict(X) of a fitted regressor, row by row: the regressor of
\* training run 1 scores by rating, the one of run 2 by price level
RegressorPredict(self, df) ==
    [k \in 1..Len(df.rows) |->
        IF self.model.src = 1 THEN 100 * df.rows[k]["rating"]
        ELSE 1000 * df.rows[k]["price_level"]]

\* the indexes of the members whose scores enter scores_list, in order
RECURSIVE ScoringMembers(_, _)
ScoringMembers(self, i) ==
    IF i > Len(self.models) THEN <<>>
    ELSE IF self.models[i].is_trained
        THEN <<i>> \o ScoringMembers(self, i + 1)
    ELSE ScoringMembers(self, i + 1)

\* sum over j of weights[j] * scores_list[j][k]
RECURSIVE WeightedSum(_, _, _, _)
WeightedSum(weights, scores_list, k, j) ==
    IF j > Len(scores_list) THEN 0
    ELSE weights[j] * scores_list[j][k] + WeightedSum(weights, scores_list, k, j + 1)

RECURSIVE SumOf(_, _)
SumOf(q, j) == IF j > Len(q) THEN 0 ELSE q[j] + SumOf(q, j + 1)

\* EnsembleRankingModel.rank_places(places_df, user_features, top_k): how it
\* ends, what it returns and the caller's frame afterwards
EnsembleRankPlaces(self, df, uf, k) ==
    LET members == ScoringMembers(self, 1)
        raising == { j \in 1..Len(members) :
                       PredictResult(self.models[members[j]], df.cols) # "ok" }
    IN  IF raising # {}
            THEN [status |-> "raised", path |-> "ensemble", list |-> <<>>, df |-> df]
        ELSE IF Len(members) = 0
            THEN IF Len(self.models) = 0
                     THEN [status |-> "raised", path |-> "first", list |-> <<>>,
                           df |-> df]
                 ELSE LET r == RankPlacesML(self.models[1], df, uf, k, <<>>)
                      IN  [status |-> r.status, path |-> "first", list |-> r.list,
                           df |-> r.df]
        ELSE LET scores_list == [j \in 1..Len(members) |->
                                    RegressorPredict(self.models[members[j]], df)]
                 weights == SubSeq(self.weights, 1, Len(scores_list))
                 total == SumOf(weights, 1)
                 nums == [r \in 1..Len(df.rows) |->
                             WeightedSum(weights, scores_list, r, 1)]
                 order == HeadRows(SortValuesDesc(nums), k)
             IN  [status |-> "returned", path |-> "ensemble",
                  list |-> [j \in 1..Len(order) |->
                              ResultRow(df, order[j], <<nums[order[j]], total>>)],
                  df |-> WithColumn(df, "ensemble_score",
                                    [r \in 1..Len(df.rows) |-> <<nums[r], total>>])]

EnsInit ==
    /\ ensemble \in Ensembles
    /\ ens_df \in EnsembleFrames
    /\ ens_top_k \in 1..MaxTopK
    /\ ens_results = NoResults

EnsIdle ==
    /\ ensemble = NewEnsemble
    /\ ens_df = Frame({}, <<>>)
    /\ ens_top_k = 0
    /\ ens_results = [NoResults EXCEPT !.status = "idle"]

\* EnsembleRankingModel.rank_places(places_df, user_features, top_k)
EnsembleRankPlacesCall ==
    /\ ens_results.status = "call"
    /\ LET r == EnsembleRankPlaces(ensemble, ens_df, EnsembleUserFeatures, ens_top_k)
       IN  /\ ens_results' = [status |-> r.status, path |-> r.path, list |-> r.list,
                              given |-> ens_df]
           /\ ens_df' = r.df
    /\ UNCHANGED <<ensemble, ens_top_k, rankVars, modelVars, mlVars, routeVars, featVars, interactions_df, dataset>>

----------------------------------------------------------------------------
(* Specifications: one per component, the other components at rest *)

InitRank == RankInit /\ ModelIdle /\ MlIdle /\ RouteIdle /\ FeatIdle /\ EnsIdle /\ DataIdle

NextRank == RankPlaces

SpecRank == InitRank /\ [][NextRank]_vars

InitModel == ModelInit /\ RankIdle /\ MlIdle /\ RouteIdle /\ FeatIdle /\ EnsIdle /\ DataIdle

NextModel ==
    \/ \E i \in Instances : Train(i)
    \/ \E i \in Instances : Predict(i)
    \/ \E i \in Instances : PredictTripBudget(i)
    \/ \E i \in Instances : Save(i)
    \/ \E i \in Instances : Load(i)

SpecModel == InitModel /\ [][NextModel]_vars

InitMl == MlInit /\ RankIdle /\ ModelIdle /\ RouteIdle /\ FeatIdle /\ EnsIdle /\ DataIdle

NextMl == RankPlacesCall

SpecMl == InitMl /\ [][NextMl]_vars

InitRoute == RouteInit /\ RankIdle /\ ModelIdle /\ MlIdle /\ FeatIdle /\ EnsIdle /\ DataIdle

NextRoute == PredictBudget \/ EstimateBudget \/ PlanTrip \/ EstimateTrip

SpecRoute == InitRoute /\ [][NextRoute]_vars

InitFeat == FeatInit /\ RankIdle /\ ModelIdle /\ MlIdle /\ RouteIdle /\ EnsIdle /\ DataIdle

NextFeat == CreatePlaceFeatures \/ CreateInteractionFeatures

SpecFeat == InitFeat /\ [][NextFeat]_vars

InitEns ==
    EnsInit /\ RankIdle /\ ModelIdle /\ MlIdle /\ RouteIdle /\ FeatIdle /\ DataIdle

NextEns == EnsembleRankPlacesCall

SpecEns == InitEns /\ [][NextEns]_vars

InitData ==
    DataInit /\ RankIdle /\ ModelIdle /\ MlIdle /\ RouteIdle /\ EnsIdle

NextData == CreateTrainingDataset

SpecData == InitData /\ [][NextData]_vars

----------------------------------------------------------------------------
(* Claims about the place scorer *)

\* the list _rank_places returned: the caller's dicts in ranked order
Returned == [k \in 1..Len(ranked) |-> places[ranked[k]]]

\* C1: _rank_places returns all N places, ordered by non-increasing rank_score,
\* and their rank fields read 1, 2, ..., N in the output order.
C1_RanksArePermutation ==
    rpc = "done" =>
        /\ Len(ranked) = Len(places)
        /\ {ranked[k] : k \in 1..Len(ranked)} = 1..Len(places)
        /\ \A k \in 1..Len(ranked) : Returned[k].rank = k
        /\ \A k \in 1..(Len(ranked) - 1) :
               Returned[k].rank_score >= Returned[k + 1].rank_score

\* C1 witness: a full list was ranked and the order changed
C1_Witness ==
    /\ rpc = "done"
    /\ Len(places) = MaxPlaces
    /\ ranked[1] # 1
    /\ Returned[1].rank_score > Returned[Len(ranked)].rank_score

\* C2: two places with equal rank_score keep their input order in the output,
\* and the earlier one gets the smaller rank.
C2_TiesKeepInputOrder ==
    rpc = "done" =>
        \A a, b \in 1..Len(ranked) :
            (a < b /\ Returned[a].rank_score = Returned[b].rank_score) =>
                /\ ranked[a] < ranked[b]
                /\ Returned[a].rank < Returned[b].rank

\* C2 witness: a tie between two places, behind a place that came later in the input
C2_Witness ==
    /\ rpc = "done"
    /\ \E a, b \in 1..Len(ranked) :
           /\ a < b
           /\ Returned[a].rank_score = Returned[b].rank_score
           /\ Returned[a].category # Returned[b].category
           /\ a > 1
           /\ ranked[1] > ranked[b]

\* the number of places of the same category earlier in the input list
EarlierSame(j) ==
    Cardinality({i \in 1..(j - 1) : places[i].category = places[j].category})

\* C11: the diversity sub-score of a place is 1/(1 + 0.1 n), n the number of
\* places of its category earlier in the input: 1.0, 0.91, 0.83 (to 2 decimals)
\* for the 1st, 2nd, 3rd of a category, never increasing within a category,
\* and counted from 0 in the call.
C11_DiversityDecays ==
    rpc = "done" =>
        \A j \in 1..Len(places) :
            LET n == EarlierSame(j)
                d == places[j].score_breakdown.diversity
            IN  /\ 2 * Abs(d * (10 + n) - 1000) <= 10 + n
                /\ n = 0 => d = 100
                /\ n = 1 => d = 91
                /\ n = 2 => d = 83
                /\ \A i \in 1..(j - 1) :
                       places[i].category = places[j].category =>
                           places[i].score_breakdown.diversity >= d

\* C11 witness: three places of one category behind a place of another
C11_Witness ==
    /\ rpc = "done"
    /\ Len(places) >= 3
    /\ \E a, b, c \in 1..Len(places) :
           /\ a < b /\ b < c
           /\ places[a].score_breakdown.diversity = 100
           /\ places[b].score_breakdown.diversity = 91
           /\ places[c].score_breakdown.diversity = 83
           /\ places[a].category = places[c].category

\* a single place without popularity tags
Untagged(p) ==
    ~p.wikipedia /\ ~p.website /\ ~p.description /\ p.tourism = <<>>

\* C12: one beach candidate without popularity tags, interests = ["beach"],
\* month 7: season_fit 1.0, interest_match 1.0, popularity 0.5, diversity 1.0
\* and rank_score = 0.725 + 0.10 * distance.
C12_BeachScenario ==
    ( /\ rpc = "done"
      /\ Len(places) = 1
      /\ Lower(places[1].category) = KeywordChars["beach"]
      /\ Untagged(places[1])
      /\ ~interests.isNone /\ interests.items = <<KeywordChars["beach"]>>
      /\ month = 7 ) =>
        LET b == places[1].score_breakdown
        IN  /\ b.season_fit = 100
            /\ b.interest_match = 100
            /\ b.popularity = 50
            /\ b.diversity = 100
            /\ places[1].rank_score = 7250 + 10 * b.distance

\* C13: with interests None the interest sub-score is 0.5 for every candidate.
C13_NoneInterestsScoreHalf ==
    (rpc = "done" /\ interests.isNone) =>
        \A j \in 1..Len(places) : places[j].score_breakdown.interest_match = 50

\* C13 witness: interests None, candidates of different categories
C13_Witness ==
    /\ rpc = "done"
    /\ interests.isNone
    /\ Len(places) >= 2
    /\ places[1].category # places[2].category
    /\ places[2].score_breakdown.interest_match = 50

\* C14 as stated: with no interests (None or an empty list) the interest-match
\* sub-score is 0 for every candidate.
C14_NoInterestsScoreZero ==
    (rpc = "done" /\ (interests.isNone \/ Len(interests.items) = 0)) =>
        \A j \in 1..Len(places) : places[j].score_breakdown.interest_match = 0

\* C14 amended: with no interests (None or an empty list) the interest-match
\* sub-score is 0.5 for every candidate.
C14_NoInterestsScoreNeutral ==
    (rpc = "done" /\ (interests.isNone \/ Len(interests.items) = 0)) =>
        \A j \in 1..Len(places) : places[j].score_breakdown.interest_match = 50

\* C14 witness: an empty list of interests, and a candidate scored
C14_Witness ==
    /\ rpc = "done"
    /\ ~interests.isNone /\ Len(interests.items) = 0
    /\ Len(places) >= 1
    /\ places[1].score_breakdown.interest_match = 50

\* the popularity formula, in hundredths, with the attraction bonus given or not
PopularityFormula(p, attraction) ==
    Min(50 + (IF p.wikipedia THEN 20 ELSE 0) + (IF p.website THEN 10 ELSE 0)
           + (IF p.description THEN 10 ELSE 0) + (IF attraction THEN 10 ELSE 0),
        100)

\* the place's category is an attraction
AttractionCategory(p) == Contains(KeywordChars["attraction"], Lower(p.category))

\* C15 as stated: popularity is min(1, 0.5 + 0.2 wikipedia + 0.1 website
\* + 0.1 description + 0.1 if the place is categorized as an attraction).
C15_PopularityByCategory ==
    rpc = "done" =>
        \A j \in 1..Len(places) :
            places[j].score_breakdown.popularity =
                PopularityFormula(places[j], AttractionCategory(places[j]))

\* C15 amended: the 0.1 bonus goes to the places whose tourism tag is
\* "attraction"; every place categorized as an attraction has that tag, so
\* with none of the three tags it gets exactly 0.6.
C15_PopularityByTourismTag ==
    rpc = "done" =>
        \A j \in 1..Len(places) :
            LET p == places[j]
            IN  /\ p.score_breakdown.popularity =
                       PopularityFormula(p, p.tourism = KeywordChars["attraction"])
                /\ (AttractionCategory(p) /\ ~p.wikipedia /\ ~p.website
                        /\ ~p.description) =>
                       p.score_breakdown.popularity = 60

\* C15 witness: an attraction with none of the three tags, scored 0.6
C15_Witness ==
    /\ rpc = "done"
    /\ Len(places) = 1
    /\ AttractionCategory(places[1])
    /\ ~places[1].wikipedia /\ ~places[1].website /\ ~places[1].description
    /\ places[1].score_breakdown.popularity = 60

\* the fixed weights applied to the stored score_breakdown, in ten-thousandths
WeightedBreakdown(p) ==
    LET b == p.score_breakdown
    IN  35 * b.popularity + 25 * b.interest_match + 20 * b.season_fit
        + 10 * b.distance + 10 * b.diversity

\* C20 as stated: the weights applied to the stored sub-scores give exactly
\* the stored rank_score.
C20_BreakdownSumsExactly ==
    rpc = "done" =>
        \A j \in 1..Len(places) : WeightedBreakdown(places[j]) = places[j].rank_score

\* C20 amended: the weights applied to the stored sub-scores (each rounded to
\* 2 decimals) give the stored rank_score to within 0.002.
C20_BreakdownSumsWithinRounding ==
    rpc = "done" =>
        \A j \in 1..Len(places) :
            Abs(WeightedBreakdown(places[j]) - places[j].rank_score) <= 20

\* C20 witness: a place whose stored sub-scores do not sum to its rank_score
C20_Witness ==
    /\ rpc = "done"
    /\ \E j \in 1..Len(places) :
           /\ WeightedBreakdown(places[j]) # places[j].rank_score
           /\ places[j].score_breakdown.diversity = 100

\* 10000 times the weighted sum of the unrounded sub-scores of place p, the
\* (n + 1)-th of its category, with interest match int[1]/int[2], as a
\* numerator over the denominator int[2] * (10 + n): 0.35 popularity
\* + 0.25 interest + 0.20 season + 0.10 distance + 0.10 diversity
ExactNum(p, int, n) ==
    (35 * CalculatePopularity(p)
     + 200 * CalculateSeasonFit(p, month)
     + 100 * CalculateDistanceScore(p.lat, p.lon, CenterLat, CenterLon))
        * int[2] * (10 + n)
    + 2500 * int[1] * (10 + n)
    + 10000 * int[2]

\* C21: the rank_score of every place is the weighted sum of its unrounded
\* sub-scores, rounded to 4 decimals: the nearest ten-thousandth to the sum.
C21_RankScoreFromUnrounded ==
    rpc = "done" =>
        \A j \in 1..Len(places) :
            LET int == CalculateInterestMatch(places[j], interests)
                n == EarlierSame(j)
                den == int[2] * (10 + n)
            IN  2 * Abs(places[j].rank_score * den - ExactNum(places[j], int, n))
                    <= den

\* C21 witness: a scored place, second of its category, whose rank_score is
\* not the sum its rounded sub-scores give
C21_Witness ==
    /\ rpc = "done"
    /\ \E j \in 1..Len(places) :
           /\ EarlierSame(j) >= 1
           /\ places[j].rank_score # WeightedBreakdown(places[j])

\* C22: for every place, interest list, month and position in the list, the
\* five sub-scores (popularity, interest match, season fit, distance,
\* diversity) lie in [0,1], and so do the stored breakdown and rank_score.
C22_SubScoresInUnitRange ==
    rpc = "done" =>
        \A j \in 1..Len(places) :
            LET p == places[j]
                int == CalculateInterestMatch(p, interests)
                b == p.score_breakdown
            IN  /\ CalculatePopularity(p) \in 0..100
                /\ 0 <= int[1] /\ int[1] <= int[2]
                /\ CalculateSeasonFit(p, month) \in 0..10
                /\ CalculateDistanceScore(p.lat, p.lon, CenterLat, CenterLon) \in 0..10
                /\ 0 < 10 /\ 10 <= 10 + EarlierSame(j)
                /\ \A s \in {b.popularity, b.interest_match, b.season_fit,
                             b.distance, b.diversity} : s \in 0..100
                /\ p.rank_score \in 0..10000

\* C22 witness: a scored place whose interests add up to more than 1 before
\* the cap, one interest matching by keyword and by name
C22_Witness ==
    /\ rpc = "done"
    /\ ~interests.isNone
    /\ \E j \in 1..Len(places) :
           /\ SumInterestUnits(Lower(places[j].category), interests.items, 1)
                  > 2 * Len(interests.items)
           /\ places[j].score_breakdown.interest_match = 100

\* C23: _rank_places leaves every place record of its input list, and the
\* list, as they were: rank_score, score_breakdown and rank are carried only
\* by the records it returns.
C23_InputPlacesUnchanged ==
    [][places' = places]_vars

----------------------------------------------------------------------------
(* Claims about the trainable models *)

\* C3: rank_places on an untrained model never raises: it returns the fallback
\* scorer's list, of length min(top_k, number of places).
C3_UntrainedRankingNeverRaises ==
    (results.status \notin {"call", "idle"} /\ ~ranker.is_trained) =>
        /\ results.status = "returned"
        /\ results.path = "fallback"
        /\ Len(results.list) = Min(top_k, Len(results.given.rows))
        /\ places_df = results.given

\* C3 witness: an untrained model ranked more places than top_k asked for
C3_Witness ==
    /\ results.status = "returned"
    /\ ~ranker.is_trained
    /\ 0 < top_k
    /\ top_k < Len(places_df.rows)
    /\ Len(results.list) = top_k
    /\ results.list[1].name = results.given.rows[Len(results.given.rows)]["name"]
    /\ results.list[1].name # results.given.rows[1]["name"]

\* C4: predict and predict_trip_budget fail with the not-trained error exactly
\* in the states in which no train or load call has completed on the instance.
C4_NotTrainedIffNothingCompleted ==
    last.op \in {"predict", "predict_trip_budget"} =>
        (last.result = "not_trained" <=> ~completed[last.inst])

\* C4 witness: after a train that raised and nothing else, predict is refused
C4_Witness ==
    /\ last.op = "predict"
    /\ last.inst = Trainer
    /\ last.result = "not_trained"
    /\ ntrain > 0
    /\ inst[Trainer].model.kind = "regressor"

\* C5: a fresh instance that loads a name right after a trained model was saved
\* under it holds the saved regressor, scaler and feature names, and predicts
\* the same for every frame.
C5_SaveLoadRoundTrip ==
    (last.op = "load" /\ last.prev_save # "" /\ last.prev_save # last.inst) =>
        LET saved == inst[last.prev_save]
            loaded == inst[last.inst]
        IN  /\ last.result = "ok"
            /\ loaded.model = saved.model
            /\ loaded.scaler = saved.scaler
            /\ loaded.feature_names = saved.feature_names
            /\ loaded.is_trained
            /\ Predictions(loaded) = Predictions(saved)
            /\ \A X \in PredictFrames :
                   PredictResult(loaded, X.cols) = PredictResult(saved, X.cols)

\* C5 witness: a fresh server instance loaded what the trainer had just saved
C5_Witness ==
    /\ last.op = "load"
    /\ last.inst = Server
    /\ last.prev_save = Trainer
    /\ ~last.was_trained
    /\ inst[Server].model.kind = "regressor"
    /\ inst[Server].scaler.fitted
    /\ Len(inst[Server].feature_names.cols) > 0

\* C6: the three artifacts of a name all exist and come from one save call, or
\* none exists; no load returns a model put together from different save calls.
C6_ArtifactsAtomic ==
    LET f == [k \in 1..3 |-> disk[Paths(ModelName(cls))[k]]]
    IN  /\ \/ \A k \in 1..3 : f[k].state = "missing"
           \/ \A k \in 1..3 : f[k].state = "ok" /\ f[k].save = f[1].save
        /\ (last.op = "load" /\ last.result = "ok") =>
               \A k \in 1..3 : last.files[k].save = last.files[1].save

\* C7: load raises not-found when the regressor artifact is missing, raises
\* when the scaler or the feature-name artifact is missing, and a load that
\* raises leaves an untrained instance untrained.
C7_LoadFatalOnPartial ==
    last.op = "load" =>
        /\ last.files[1].state = "missing" => last.result = "file_not_found"
        /\ (last.files[1].state # "missing"
            /\ (last.files[2].state = "missing" \/ last.files[3].state = "missing"))
               => last.result = "raised"
        /\ (last.result # "ok" /\ ~last.was_trained) => ~inst[last.inst].is_trained

\* C7 witness: a load found the regressor but no scaler, and raised
C7_Witness ==
    /\ last.op = "load"
    /\ last.files[1].state = "ok"
    /\ last.files[2].state = "missing"
    /\ last.result = "raised"
    /\ ~last.was_trained
    /\ inst[last.inst].model.kind = "regressor"

\* C8: on a trained model, predict(X) with an X that lacks a stored feature
\* column does not raise and returns a prediction for every row.
C8_PredictZeroFills ==
    (/\ last.op = "predict"
     /\ last.was_trained
     /\ CanInfer(inst[last.inst], inst[last.inst].feature_names.cols)
     /\ ~(Range(inst[last.inst].feature_names.cols) \subseteq last.x)) =>
        /\ last.result = "ok"
        /\ last.rows > 0

\* C9: rank_places on a trained model whose prediction raises lets nothing
\* escape and returns what the fallback scorer returns for the caller's own
\* places and user features, as an untrained model would.
C9_FailedPredictionFallsBack ==
    (/\ results.status \notin {"call", "idle"}
     /\ ranker.is_trained
     /\ PredictResult(ranker, results.given.cols \cup DOMAIN user_features) # "ok") =>
        /\ results.status = "returned"
        /\ results.list = FallbackRanking(results.given, user_features, top_k)
        /\ results.list =
               RankPlacesML(NewModel, results.given, user_features, top_k, <<>>).list

\* C9 witness: a trained model lacked a feature column and ranked two places
C9_Witness ==
    /\ results.status = "returned"
    /\ ranker.is_trained
    /\ results.path = "fallback"
    /\ DOMAIN user_features # {}
    /\ Len(results.list) = 2
    /\ results.list[1].score > results.list[2].score

\* the regressor, the scaler and the feature names of an instance come from
\* one train call (or one saved set of it): same origin, same columns
OneOrigin(self) ==
    /\ self.model.kind = "regressor" /\ self.model.fitted
    /\ self.scaler.kind = "scaler" /\ self.scaler.fitted
    /\ self.feature_names.kind = "list"
    /\ self.model.src = self.scaler.src
    /\ self.model.cols = self.feature_names.cols
    /\ self.scaler.cols = self.feature_names.cols

\* C17: whenever is_trained is true on an instance, its feature_names, scaler
\* and regressor come from the same train call or the same persisted set, so
\* the three agree on the number of features.
C17_TrainedIsConsistent ==
    \A i \in Instances : inst[i].is_trained => OneOrigin(inst[i])

\* C18: a load call that raises leaves the instance's regressor, scaler,
\* feature_names and is_trained as they were before the call.
C18_FailedLoadChangesNothing ==
    [][(last'.op = "load" /\ last'.result # "ok") =>
           inst'[last'.inst] = inst[last'.inst]]_vars

\* C19: once train has completed on an instance, its feature_names never
\* change under any later operation on it.
C19_FeatureNamesImmutable ==
    [][\A i \in Instances :
           train_done[i] => inst'[i].feature_names = inst[i].feature_names]_vars

\* C24: rank_places leaves the caller's places frame with the columns and
\* values it had, on every path, and leaves the model it is called on alone.
C24_CallerFrameUnchanged ==
    [][places_df' = places_df /\ ranker' = ranker]_vars

----------------------------------------------------------------------------
(* Claims about the routes *)

\* C10: in every route that calls predict_trip_budget, a request with num_days
\* outside 1..365 or num_people outside 1..50 is answered 400, and the budget
\* model is neither loaded nor invoked.
C10_OutOfRangeRejected ==
    (/\ response.status # 0
     /\ request.dates_ok
     /\ \/ request.num_days < 1 \/ request.num_days > 365
        \/ request.num_people < 1 \/ request.num_people > 50) =>
        /\ response.status = 400
        /\ ~response.model_loaded
        /\ ~response.model_invoked

----------------------------------------------------------------------------
(* Claims about the feature engineer *)

\* every rating of the frame is in [0, 5] and every price level in 1..5
ValidBatch(df) ==
    \A k \in 1..Len(df.rows) :
        /\ 0 <= df.rows[k].rating /\ df.rows[k].rating <= 500
        /\ 1 <= df.rows[k].price_level /\ df.rows[k].price_level <= 5

\* C16: for every valid batch (ratings in [0, 5], 0 included, price levels in
\* 1..5) create_place_features returns, with one output row per input row and
\* rating_normalized in [0, 1] on every row.
C16_FeaturesForEveryValidBatch ==
    (features.status \notin {"call", "idle"} /\ ValidBatch(raw_df)) =>
        /\ features.status = "returned"
        /\ Len(features.rows) = Len(raw_df.rows)
        /\ \A k \in 1..Len(features.rows) :
               /\ 0 <= features.rows[k].rating_normalized
               /\ features.rows[k].rating_normalized <= 1000

\* the bucket of a rating: low 0 up to 3.0, medium 1 up to 4.0, high 2 above
RatingBucket(rating) ==
    IF rating <= 300 THEN 0 ELSE IF rating <= 400 THEN 1 ELSE 2

\* C28: rating_quality is 0 on (0,3], 1 on (3,4], 2 on (4,5], upper bounds
\* inclusive, and a rating <= 0 falls in 0 with no error and no missing value.
C28_RatingQualityBuckets ==
    features.status \notin {"call", "idle"} =>
        /\ features.status = "returned"
        /\ Len(features.rows) = Len(raw_df.rows)
        /\ \A k \in 1..Len(features.rows) :
               features.rows[k].rating_quality = RatingBucket(WithRating(raw_df)[k].rating)

\* C29: when every review count of the batch is 0, so that the largest
\* log_reviews is 0, the review term adds 0: quality_score is
\* 0.4 rating_normalized + 0.3 (5 - price_level)/4, a defined number, on every row.
C29_NoReviewsQualityScore ==
    (features.status = "returned"
     /\ \A k \in 1..Len(raw_df.rows) : raw_df.rows[k].reviews_count = 0) =>
        \A k \in 1..Len(features.rows) :
            LET row == features.rows[k]
            IN  /\ ~row.quality_score.nan
                /\ row.quality_score.val = 8 * row.rating + 750 * (5 - row.price_level)

\* the gap between the price level of a row and the encoded budget of the user
Mismatch(r) ==
    Abs(r.place.price_level - interaction.user_features.budget_encoded)

\* C30 as stated: budget_match = 1 - |price_level - budget_encoded| / 4 is left
\* unclamped, lies in [-0.5, 1], and is negative at maximal mismatch.
C30_BudgetMatchNegativeAtWorst ==
    interaction.status = "returned" =>
        \A k \in 1..Len(interaction.rows) :
            LET r == interaction.rows[k]
            IN  /\ r.place.price_level \in 1..5
                /\ interaction.user_features.budget_encoded \in 1..4
                /\ 4 * r.budget_match = 400 - 100 * Mismatch(r)
                /\ -50 <= r.budget_match /\ r.budget_match <= 100
                /\ Mismatch(r) = 4 => r.budget_match < 0

\* C30 amended: budget_match = 1 - |price_level - budget_encoded| / 4 is left
\* unclamped and, for price levels 1..5 and budgets 1..4, lies in [0, 1]: it
\* is 0 at maximal mismatch (price level 5, budget 1) and never negative.
C30_BudgetMatchZeroAtWorst ==
    interaction.status = "returned" =>
        \A k \in 1..Len(interaction.rows) :
            LET r == interaction.rows[k]
            IN  /\ r.place.price_level \in 1..5
                /\ interaction.user_features.budget_encoded \in 1..4
                /\ 4 * r.budget_match = 400 - 100 * Mismatch(r)
                /\ 0 <= r.budget_match /\ r.budget_match <= 100
                /\ Mismatch(r) <= 4
                /\ Mismatch(r) = 4 => r.budget_match = 0

\* C30 witness: a price level 5 place scored for a low-budget user, next to
\* a place that matches the budget exactly
C30_Witness ==
    /\ interaction.status = "returned"
    /\ interaction.user_features.budget_encoded = 1
    /\ \E a, b \in 1..Len(interaction.rows) :
           /\ interaction.rows[a].place.price_level = 5
           /\ interaction.rows[a].budget_match = 0
           /\ interaction.rows[b].budget_match = 100

\* C27: with a rating column in the places table and in the interactions
\* table, the target of each row of the dataset is that interaction's own
\* rating times the weight of its type: view 1, save 3, visit 5.
C27_TargetIsOwnRatingTimesWeight ==
    (dataset.status \notin {"call", "idle"} /\ raw_df.has_rating) =>
        /\ dataset.status = "returned"
        /\ Len(dataset.rows) = Len(interactions_df)
        /\ \A k \in 1..Len(dataset.rows) :
               dataset.rows[k].target =
                   interactions_df[k].rating
                   * (CASE interactions_df[k].interaction_type = "view" -> 1
                        [] interactions_df[k].interaction_type = "save" -> 3
                        [] interactions_df[k].interaction_type = "visit" -> 5)

----------------------------------------------------------------------------
(* Claims about the ensemble *)

\* the sum over the trained members i.. of the weight each was added with,
\* times its prediction for row r of the frame (times 1 for r = 0)
RECURSIVE OwnWeightSum(_, _)
OwnWeightSum(i, r) ==
    IF i > Len(ensemble.models) THEN 0
    ELSE (IF ensemble.models[i].is_trained
              THEN ensemble.weights[i]
                   * (IF r = 0 THEN 1
                      ELSE RegressorPredict(ensemble.models[i], ens_results.given)[r])
          ELSE 0)
         + OwnWeightSum(i + 1, r)

\* C25: the ensemble score of every place is the weighted average of the
\* predictions of the trained members, each weighted by the weight it was
\* added with, the weights of the trained members normalized to sum to 1.
C25_ScoreIsOwnWeightAverage ==
    (ens_results.status = "returned" /\ ens_results.path = "ensemble") =>
        /\ \A r \in 1..Len(ens_df.rows) :
               LET score == ens_df.rows[r]["ensemble_score"]
               IN  score[1] * OwnWeightSum(1, 0) = score[2] * OwnWeightSum(1, r)
        /\ \A j \in 1..Len(ens_results.list) :
               \E r \in 1..Len(ens_df.rows) :
                   /\ ens_df.rows[r]["place_id"] = ens_results.list[j].place_id
                   /\ ens_df.rows[r]["ensemble_score"] = ens_results.list[j].score

\* every member of the ensemble is untrained, or its predict raises on the frame
ScoringFailsForAll ==
    \A i \in 1..Len(ensemble.models) :
        PredictResult(ensemble.models[i], ens_results.given.cols) # "ok"

\* C26: when scoring fails for every member of an ensemble, rank_places does
\* not raise and returns what the first member's rank_places returns on its
\* fallback path.
C26_AllFailFallsBackToFirst ==
    (ens_results.status \notin {"call", "idle"} /\ Len(ensemble.models) > 0
     /\ ScoringFailsForAll) =>
        /\ ens_results.status = "returned"
        /\ ens_results.list =
               FallbackRanking(ens_results.given, EnsembleUserFeatures, ens_top_k)

====
